---- MODULE Spec2Model ----
(***************************************************************************)
(* The Runtime of gatsby-source-prismic (runtime/runtime.ts): three        *)
(* sequences (nodes, typePaths, subscribers), the registration methods     *)
(* that append to them and then notify every subscriber, and the lookups   *)
(* getNode / hasNode / getTypePath.                                        *)
(*                                                                         *)
(* JavaScript runs the Runtime on one thread, so the only interleaving is  *)
(* the call stack: a subscriber callback runs inside the mutating call     *)
(* that notifies it and may itself call the Runtime.  `stack` is that call *)
(* stack; one frame per mutating call that has not returned yet.           *)
(*                                                                         *)
(* A string is a tuple of one-character strings, so that join and the      *)
(* field-name transform are computed character by character.               *)
(***************************************************************************)
EXTENDS Integers, Sequences, FiniteSets, TLC

VARIABLES
    nodes,          \* Runtime.nodes
    typePaths,      \* Runtime.typePaths
    subscribers,    \* Runtime.subscribers
    stack,          \* the mutating calls in progress, outermost first
    subscribed,     \* history: the callbacks passed to subscribe, in call order;
                    \* NoLog once unsubscribe has been called
    unsubscribed,   \* history: the last unsubscribe call (its callback and the
                    \* subscribers it found) when no subscribe and no mutating
                    \* call has followed it yet, NoCall otherwise
    orderA,         \* order experiment: the first set of type paths
    orderB,         \* order experiment: the second set of type paths
    typePathsAB,    \* order experiment: typePaths of the Runtime given A then B
    typePathsBA,    \* order experiment: typePaths of the Runtime given B then A
    orderPc,        \* order experiment: how many of the two registrations are done
    payload1,       \* digest experiment: the first payload
    payload2,       \* digest experiment: the second payload
    digest1,        \* digest experiment: createContentDigest(payload1)
    digest2,        \* digest experiment: createContentDigest(payload2)
    digestPc,       \* digest experiment: 1 once the digests are computed
    config,         \* Runtime.config
    given,          \* history: the configuration the constructor was given
    batchDocs,      \* batch experiment: the documents to register
    batchMode,      \* batch experiment: by one registerDocuments call or by
                    \* one registerDocument call per document
    batchAt,        \* batch experiment: the index of the document that is
                    \* being normalized
    batchItems,     \* batch experiment: the local constant nodes of
                    \* registerDocuments as far as documents.map has built it
    lastOp,         \* frame experiment: the method the host called last
    read            \* frame experiment: what the last accessor call returned

runtimeVars == <<nodes, typePaths, subscribers, stack, subscribed, unsubscribed>>
orderVars == <<orderA, orderB, typePathsAB, typePathsBA, orderPc>>
digestVars == <<payload1, payload2, digest1, digest2, digestPc>>
configVars == <<config, given>>
batchVars == <<batchDocs, batchMode, batchAt, batchItems>>
frameVars == <<lastOp, read>>

\* what no call to the Runtime touches
otherVars == <<orderVars, digestVars, configVars, batchVars, frameVars>>

vars == <<runtimeVars, otherVars>>

----------------------------------------------------------------------------
(* Bounds of the model *)

MaxItems == 3           \* most entries of typePaths and nodes together
MaxSubscribers == 2     \* most entries of subscribers
MaxBatch == 2           \* longest argument list of a plural method
MaxDepth == 2           \* deepest nesting of mutating calls (1 = no re-entrancy)
StackLimit == 3         \* most calls in progress before the engine's call stack
                        \* overflows
MaxKeys == 2            \* most keys of a payload given to createContentDigest
MaxNameLen == 3         \* longest field name of the transform experiment

----------------------------------------------------------------------------
(* Strings *)

\* '__SEPARATOR__', the literal of getTypePath
SEPARATOR == <<"_", "_", "S", "E", "P", "A", "R", "A", "T", "O", "R", "_", "_">>

sA == <<"a">>
sB == <<"b">>
sMF == <<"m", "-", "f">>             \* 'm-f'
sM_F == <<"m", "_", "f">>            \* 'm_f'
sASepM_F == sA \o SEPARATOR \o sM_F  \* the one field name 'a__SEPARATOR__m_f'

\* Array.prototype.join: the components with the separator between them
RECURSIVE Join(_, _)
Join(path, separator) ==
    IF path = <<>> THEN <<>>
    ELSE IF Len(path) = 1 THEN path[1]
    ELSE path[1] \o separator \o Join(Tail(path), separator)

\* the replacement without the g flag: only the first '-' is replaced
DefaultTransformFieldNameFirstOnly(fieldName) ==
    LET dashes == {i \in 1..Len(fieldName) : fieldName[i] = "-"}
        first == IF dashes = {} THEN 0
                 ELSE CHOOSE i \in dashes : \A j \in dashes : i <= j
    IN [i \in 1..Len(fieldName) |-> IF i = first THEN "_" ELSE fieldName[i]]

\* the default config.transformFieldName: fieldName.replace(/-/g, '_')
DefaultTransformFieldName(fieldName) ==
    [i \in 1..Len(fieldName) |-> IF fieldName[i] = "-" THEN "_" ELSE fieldName[i]]

\* JavaScript's undefined
Undefined == [kind |-> "undefined"]

\* [...xs, ...ys]
Spread(xs, ys) == xs \o ys

\* the index Array.prototype.find / some stops at, given the outcome of the
\* test on each element: the first one that passes, 0 when there is none
FindIndex(tests) ==
    LET hits == {i \in 1..Len(tests) : tests[i]}
    IN IF hits = {} THEN 0 ELSE CHOOSE i \in hits : \A j \in hits : i <= j

\* the concatenation of a sequence of sequences
RECURSIVE Flatten(_)
Flatten(xss) ==
    IF xss = <<>> THEN <<>> ELSE Head(xss) \o Flatten(Tail(xss))

\* Array.prototype.filter, given the outcome of the test on each element
Filter(xs, keeps) ==
    Flatten([i \in 1..Len(xs) |-> IF keeps[i] THEN <<xs[i]>> ELSE <<>>])

\* the sequences over S of length at most n
SeqsUpTo(S, n) == UNION {[1..k -> S] : k \in 0..n}

IsPrefix(xs, ys) == Len(xs) <= Len(ys) /\ SubSeq(ys, 1, Len(xs)) = xs

----------------------------------------------------------------------------
(* Lookups *)

\* Runtime.getTypePath
GetTypePath(registry, path) ==
    LET i == FindIndex([k \in 1..Len(registry) |->
                 Join(registry[k].path, SEPARATOR) = Join(path, SEPARATOR)])
    IN IF i = 0 THEN Undefined ELSE registry[i]

\* getNode comparing the derived node id instead of the document key
GetNodeByNodeId(accumulated, id) ==
    LET i == FindIndex([k \in 1..Len(accumulated) |-> accumulated[k].id = id])
    IN IF i = 0 THEN Undefined ELSE accumulated[i]

\* getNode comparing the type of the node with the id
GetNodeByType(accumulated, id) ==
    LET i == FindIndex([k \in 1..Len(accumulated) |-> accumulated[k].type = id])
    IN IF i = 0 THEN Undefined ELSE accumulated[i]

\* Runtime.getNode
GetNode(accumulated, id) ==
    LET i == FindIndex([k \in 1..Len(accumulated) |-> accumulated[k].prismicId = id])
    IN IF i = 0 THEN Undefined ELSE accumulated[i]

\* Runtime.hasNode
HasNode(accumulated, id) ==
    FindIndex([k \in 1..Len(accumulated) |-> accumulated[k].prismicId = id]) # 0

----------------------------------------------------------------------------
(* Identity, type-path builders and the normalization engine *)

\* createNodeId: md5(input), as a one-to-one tagging of the input
createNodeId(input) == <<"#">> \o input

\* md5 of tiny-hashes, as a one-to-one tagging of the input: the model takes
\* no two inputs to one hash
md5(input) == <<"#">> \o input

sNull == <<"n", "u", "l", "l">>
sNaN == <<"N", "a", "N">>

\* JSON.stringify of a property value: a string in quotes, a number by its
\* digits, null and the number NaN both as null
JSONStringifyValue(value) ==
    IF value.t = "string" THEN <<"\"">> \o value.v \o <<"\"">>
    ELSE IF value.t = "number" /\ value.v # sNaN THEN value.v
    ELSE sNull

\* JSON.stringify of a mapping, given as its entries in key order: the
\* properties in that order, those whose value is undefined left out
JSONStringify(input) ==
    LET kept == Filter(input, [i \in 1..Len(input) |->
                    input[i].value.t # "undefined"])
        members == [i \in 1..Len(kept) |->
                       <<"\"">> \o kept[i].key \o <<"\"", ":">>
                           \o JSONStringifyValue(kept[i].value)]
    IN <<"{">> \o Join(members, <<",">>) \o <<"}">>

\* the entries of the mapping with key `key`
EntriesOf(input, key) ==
    Filter(input, [i \in 1..Len(input) |-> input[i].key = key])

\* a digest of the mapping with its keys put in alphabetical order first
createContentDigestSortingKeys(input) ==
    md5(JSONStringify(EntriesOf(input, sA) \o EntriesOf(input, sB)))

\* createContentDigest: md5(JSON.stringify(input))
createContentDigest(input) == md5(JSONStringify(input))

\* the field names of the schemas and documents
FieldNames == {sMF, sM_F, sB}

\* config.transformFieldName of a Runtime constructed without one, as the
\* function it is on the field names
transformFieldName ==
    [fieldName \in FieldNames |-> DefaultTransformFieldName(fieldName)]

\* the field names of the transform experiment
TransformNames == UNION {[1..k -> {"a", "-", "_"}] : k \in 0..MaxNameLen}

AllFieldNames == FieldNames \cup TransformNames

\* a transformFieldName a host supplies: the field name without its dashes
DropDashes(fieldName) ==
    LET keep == {i \in 1..Len(fieldName) : fieldName[i] # "-"}
        nth(k) == CHOOSE i \in keep : Cardinality({j \in keep : j <= i}) = k
    IN [k \in 1..Cardinality(keep) |-> fieldName[nth(k)]]

\* A configuration holds its transformFieldName by reference; the model names
\* the two functions there are: "replaceDashes", the arrow function of the
\* constructor, and "dropDashes", the one a host supplies.
ApplyTransformFieldName(fn, fieldName) ==
    IF fn = "replaceDashes" THEN DefaultTransformFieldName(fieldName)
    ELSE DropDashes(fieldName)

\* this.config.transformFieldName of the configuration, as the function it is
\* on the field names
TransformFieldNameOf(cfg) ==
    [fieldName \in AllFieldNames |->
        ApplyTransformFieldName(cfg.transformFieldName, fieldName)]

\* new Runtime() and new Runtime({ transformFieldName: dropDashes })
NoConfig == [transformFieldName |-> "undefined"]
CustomConfig == [transformFieldName |-> "dropDashes"]

\* the constructor's this.config: config.transformFieldName ?? the default
RuntimeConfigOf(cfg) ==
    [transformFieldName |->
        IF cfg.transformFieldName = "undefined" THEN "replaceDashes"
        ELSE cfg.transformFieldName]

\* customTypeModelToTypePaths: one TypePath per declared field, the field
\* name transformed
customTypeModelToTypePaths(model, transform) ==
    [i \in 1..Len(model.fields) |->
        [path |-> <<model.id, transform[model.fields[i].name]>>,
         type |-> model.fields[i].type]]

\* sharedSliceModelToTypePaths: one TypePath per declared field, the field
\* name transformed
sharedSliceModelToTypePaths(model, transform) ==
    [i \in 1..Len(model.fields) |->
        [path |-> <<model.id, transform[model.fields[i].name]>>,
         type |-> model.fields[i].type]]

\* normalize of one field value at `path`: a link keeps a back-reference to
\* its target; a value whose shape does not tell its kind is normalized as
\* the type registered at `path` says (Select: the plain value), and passed
\* through when no type is registered there
NormalizeValue(value, path, accumulated, registry) ==
    IF value.shape = "link"
    THEN [shape |-> "link", ref |-> value.id]
    ELSE LET typePath == GetTypePath(registry, path)
         IN IF typePath = Undefined \/ typePath.type = "Select"
            THEN value
            ELSE [shape |-> "typed", type |-> typePath.type, raw |-> value]

\* normalize of a document at `path`: the node of the document
Normalize(document, path, accumulated, registry, transform) ==
    [id |-> createNodeId(document.id),
     prismicId |-> document.id,
     type |-> document.type,
     data |-> [i \in 1..Len(document.data) |->
                  [name |-> transform[document.data[i].name],
                   value |-> NormalizeValue(document.data[i].value,
                                 Append(path, transform[document.data[i].name]),
                                 accumulated, registry)]]]

\* normalizeDocument without the document type as the path root
NormalizeDocumentNoRoot(document, accumulated, registry) ==
    Normalize(document, <<>>, accumulated, registry,
              TransformFieldNameOf(config))

\* Runtime.normalizeDocument, in the state (accumulated, registry)
NormalizeDocument(document, accumulated, registry) ==
    Normalize(document, <<document.type>>, accumulated, registry,
              TransformFieldNameOf(config))

----------------------------------------------------------------------------
(* Inputs *)

tpSelect == [path |-> <<sA, sM_F>>, type |-> "Select"]
tpJoinedLink == [path |-> <<sASepM_F>>, type |-> "Link"]

TypePathPool == {tpSelect, tpJoinedLink}

CustomTypeModelPool == {[id |-> sA, fields |-> <<[name |-> sMF, type |-> "Number"]>>]}

SharedSliceModelPool == {[id |-> sA, fields |-> <<[name |-> sMF, type |-> "Select"]>>]}

\* the models of the frame experiment: two of each kind, so that the order
\* of the models of a plural call shows in what it produces
FrameCustomTypeModelPool ==
    CustomTypeModelPool
    \cup {[id |-> sA, fields |-> <<[name |-> sM_F, type |-> "Select"]>>]}

FrameSharedSliceModelPool ==
    SharedSliceModelPool
    \cup {[id |-> sA, fields |-> <<[name |-> sM_F, type |-> "Number"]>>]}

idX == <<"X">>
idY == <<"Y">>
DocumentIds == {idX, idY}

docX == [id |-> idX, type |-> sA,
         data |-> <<[name |-> sMF, value |-> [shape |-> "text", text |-> "v"]]>>]
docY == [id |-> idY, type |-> sA,
         data |-> <<[name |-> sMF, value |-> [shape |-> "link", id |-> idX]]>>]

DocumentPool == {docX, docY}

\* every type path a registration of the model can produce
AllTypePaths ==
    TypePathPool
    \cup UNION {{customTypeModelToTypePaths(m, transformFieldName)[i] :
                    i \in 1..Len(m.fields)} : m \in CustomTypeModelPool}
    \cup UNION {{sharedSliceModelToTypePaths(m, transformFieldName)[i] :
                    i \in 1..Len(m.fields)} : m \in SharedSliceModelPool}

\* the ids getNode is asked for: the document keys and a derived node id
QueryIds == DocumentIds \cup {createNodeId(idX)}

\* the paths getTypePath is asked for
QueryPaths == {tp.path : tp \in AllTypePaths} \cup {<<>>, <<sA>>, <<sB, sA>>}

\* The subscriber callbacks.  cObserve only reads the Runtime; cUnsubscribe
\* calls unsubscribe(cObserve); cRegisterDocument calls registerDocument(docX),
\* but only while fewer than MaxDepth mutating calls are in progress.
Callbacks == {"cObserve", "cUnsubscribe", "cRegisterDocument"}

NoLog == <<"unsubscribed">>
NoCall == [callback |-> "none", before |-> <<>>]

----------------------------------------------------------------------------
(* The call stack *)

\* The frame of a mutating call that has assigned its sequence and starts
\* #notifySubscribers.  op, args: the method and its arguments; items: its
\* local constant (typePaths, nodes or, as a one-element list,
\* normalizedDocument); base: the length of the assigned sequence before the
\* call; snap: the array the for-of loop iterates; i: the loop's position;
\* called: the callbacks the loop has invoked; after: the unsubscribe call
\* this call directly follows (NoCall if none); ret: the value returned;
\* nested: history of the calls the callbacks of this call have made and that
\* have returned, each with its op, base and items and with `end`, the length
\* of the sequence it assigns at the moment it returned.
Frame(op, args, items, base) ==
    [op |-> op, args |-> args, items |-> items, base |-> base,
     snap |-> subscribers, i |-> 1, called |-> <<>>, after |-> unsubscribed,
     ret |-> [kind |-> "pending"], nested |-> <<>>]

TypePathOps == {"registerCustomTypeModel", "registerCustomTypeModels",
                "registerSharedSliceModel", "registerSharedSliceModels",
                "registerTypePaths"}
DocumentOps == {"registerDocument", "registerDocuments"}

Idle == stack = <<>>
Top == stack[Len(stack)]

\* the loop of #notifySubscribers stands before an element of its array
Notifying == ~Idle /\ Top.ret.kind = "pending" /\ Top.i <= Len(Top.snap)

\* the subscriber the loop invokes next
NextSubscriber == Top.snap[Top.i]

\* the loop passing over the element after the one it invokes
AdvancedSkipping ==
    [stack EXCEPT ![Len(stack)] =
        [@ EXCEPT !.i = @ + 2, !.called = Append(@, NextSubscriber)]]

\* the stack once the loop has taken its next element and invoked it
Advanced ==
    [stack EXCEPT ![Len(stack)] =
        [@ EXCEPT !.i = @ + 1, !.called = Append(@, NextSubscriber)]]

\* the value a method returns
ReturnValue(frame) ==
    IF frame.op = "registerTypePaths" THEN [kind |-> "void"]
    ELSE IF frame.op = "registerDocument"
    THEN [kind |-> "value", value |-> frame.items[1]]
    ELSE [kind |-> "value", value |-> frame.items]

----------------------------------------------------------------------------
(* The Runtime's methods, called with `caller` as the stack of the caller *)

\* the assignment leaving out the entries that are registered already
RegisteredTypePathsDeduplicating(registry, produced) ==
    Spread(registry,
           Filter(produced, [i \in 1..Len(produced) |->
               /\ \A k \in 1..Len(registry) : registry[k] # produced[i]
               /\ \A k \in 1..(i - 1) : produced[k] # produced[i]]))

\* the assignment without the spread of this.typePaths
RegisteredTypePathsReplacing(registry, produced) == produced

\* [...this.typePaths, ...typePaths]
RegisteredTypePaths(registry, produced) == Spread(registry, produced)

\* the assignment without the spread of this.nodes
RegisteredNodesReplacing(accumulated, produced) == produced

\* [...this.nodes, ...nodes]
RegisteredNodes(accumulated, produced) == Spread(accumulated, produced)

\* the assignment made to this.nodes instead of this.typePaths
AssignTypePathsToNodes(caller, op, args, produced) ==
    /\ Len(typePaths) + Len(nodes) + Len(produced) <= MaxItems
    /\ nodes' = RegisteredTypePaths(nodes, produced)
    /\ stack' = Append(caller, Frame(op, args, produced, Len(typePaths)))
    /\ unsubscribed' = NoCall
    /\ UNCHANGED <<typePaths, subscribers>>

\* this.typePaths = [...this.typePaths, ...typePaths]; this.#notifySubscribers()
AssignTypePaths(caller, op, args, produced) ==
    /\ Len(typePaths) + Len(nodes) + Len(produced) <= MaxItems
    /\ typePaths' = RegisteredTypePaths(typePaths, produced)
    /\ stack' = Append(caller, Frame(op, args, produced, Len(typePaths)))
    /\ unsubscribed' = NoCall
    /\ UNCHANGED <<nodes, subscribers>>

\* #notifySubscribers() without the assignment to this.nodes before it
AssignNodesNotAssigned(caller, op, args, produced) ==
    /\ Len(typePaths) + Len(nodes) + Len(produced) <= MaxItems
    /\ stack' = Append(caller, Frame(op, args, produced, Len(nodes)))
    /\ unsubscribed' = NoCall
    /\ UNCHANGED <<nodes, typePaths, subscribers>>

\* this.nodes = [...this.nodes, ...nodes]; this.#notifySubscribers()
AssignNodes(caller, op, args, produced) ==
    /\ Len(typePaths) + Len(nodes) + Len(produced) <= MaxItems
    /\ nodes' = RegisteredNodes(nodes, produced)
    /\ stack' = Append(caller, Frame(op, args, produced, Len(nodes)))
    /\ unsubscribed' = NoCall
    /\ UNCHANGED <<typePaths, subscribers>>

registerCustomTypeModel(caller, model) ==
    AssignTypePaths(caller, "registerCustomTypeModel", <<model>>,
        customTypeModelToTypePaths(model, TransformFieldNameOf(config)))

registerCustomTypeModels(caller, models) ==
    AssignTypePaths(caller, "registerCustomTypeModels", models,
        Flatten([i \in 1..Len(models) |->
            customTypeModelToTypePaths(models[i], TransformFieldNameOf(config))]))

registerSharedSliceModel(caller, model) ==
    AssignTypePaths(caller, "registerSharedSliceModel", <<model>>,
        sharedSliceModelToTypePaths(model, TransformFieldNameOf(config)))

registerSharedSliceModels(caller, models) ==
    AssignTypePaths(caller, "registerSharedSliceModels", models,
        Flatten([i \in 1..Len(models) |->
            sharedSliceModelToTypePaths(models[i], TransformFieldNameOf(config))]))

registerTypePaths(caller, paths) ==
    AssignTypePaths(caller, "registerTypePaths", paths, paths)

registerDocument(caller, document) ==
    AssignNodes(caller, "registerDocument", <<document>>,
        <<NormalizeDocument(document, nodes, typePaths)>>)

registerDocuments(caller, documents) ==
    AssignNodes(caller, "registerDocuments", documents,
        [i \in 1..Len(documents) |->
            NormalizeDocument(documents[i], nodes, typePaths)])

\* subscribe putting the callback first: [callback, ...this.subscribers]
subscribeFirst(callback) ==
    /\ Len(subscribers) < MaxSubscribers
    /\ subscribers' = Spread(<<callback>>, subscribers)
    /\ subscribed' = IF subscribed = NoLog THEN NoLog ELSE Append(subscribed, callback)
    /\ unsubscribed' = NoCall

\* subscribe: this.subscribers = [...this.subscribers, callback]
subscribe(callback) ==
    /\ Len(subscribers) < MaxSubscribers
    /\ subscribers' = Spread(subscribers, <<callback>>)
    /\ subscribed' = IF subscribed = NoLog THEN NoLog ELSE Append(subscribed, callback)
    /\ unsubscribed' = NoCall

\* unsubscribe removing only the first subscription of the callback
unsubscribeOne(callback) ==
    /\ subscribers' =
           LET i == FindIndex([k \in 1..Len(subscribers) |->
                        subscribers[k] = callback])
           IN IF i = 0 THEN subscribers
              ELSE SubSeq(subscribers, 1, i - 1)
                   \o SubSeq(subscribers, i + 1, Len(subscribers))
    /\ subscribed' = NoLog
    /\ unsubscribed' = [callback |-> callback, before |-> subscribers]

\* unsubscribe with the test of the filter inverted
unsubscribeOthers(callback) ==
    /\ subscribers' = Filter(subscribers,
                          [k \in 1..Len(subscribers) |-> subscribers[k] = callback])
    /\ subscribed' = NoLog
    /\ unsubscribed' = [callback |-> callback, before |-> subscribers]

\* unsubscribe: this.subscribers = this.subscribers.filter(...)
unsubscribe(callback) ==
    /\ subscribers' = Filter(subscribers,
                          [k \in 1..Len(subscribers) |-> subscribers[k] # callback])
    /\ subscribed' = NoLog
    /\ unsubscribed' = [callback |-> callback, before |-> subscribers]

----------------------------------------------------------------------------
(* The host calls the Runtime *)

\* the Runtime after construction: three empty lists, nothing in progress
Constructed ==
    /\ nodes = <<>>
    /\ typePaths = <<>>
    /\ subscribers = <<>>
    /\ stack = <<>>
    /\ subscribed = <<>>
    /\ unsubscribed = NoCall

\* new Runtime(): no configuration is given
DefaultConfig ==
    /\ given = NoConfig
    /\ config = RuntimeConfigOf(given)

\* the order experiment is not run
NoOrder ==
    /\ orderA = <<>> /\ orderB = <<>>
    /\ typePathsAB = <<>> /\ typePathsBA = <<>>
    /\ orderPc = 0

\* the frame experiment is not run, or the host has called nothing yet
NoFrame ==
    /\ lastOp = "none"
    /\ read = Undefined

\* the batch experiment is not run
NoBatch ==
    /\ batchDocs = <<>>
    /\ batchMode = "none"
    /\ batchAt = 0
    /\ batchItems = <<>>

\* the digest experiment is not run
NoDigest ==
    /\ payload1 = <<>> /\ payload2 = <<>>
    /\ digest1 = <<>> /\ digest2 = <<>>
    /\ digestPc = 0

Init ==
    /\ Constructed
    /\ NoFrame
    /\ NoBatch
    /\ DefaultConfig
    /\ NoOrder
    /\ NoDigest

Subscribe ==
    /\ Idle
    /\ \E callback \in Callbacks : subscribe(callback)
    /\ UNCHANGED <<nodes, typePaths, stack>>
    /\ UNCHANGED otherVars

Unsubscribe ==
    /\ Idle
    /\ \E callback \in Callbacks : unsubscribe(callback)
    /\ UNCHANGED <<nodes, typePaths, stack>>
    /\ UNCHANGED otherVars

RegisterCustomTypeModel ==
    /\ Idle
    /\ \E model \in CustomTypeModelPool : registerCustomTypeModel(stack, model)
    /\ UNCHANGED subscribed
    /\ UNCHANGED otherVars

RegisterCustomTypeModels ==
    /\ Idle
    /\ \E models \in SeqsUpTo(CustomTypeModelPool, MaxBatch) :
           registerCustomTypeModels(stack, models)
    /\ UNCHANGED subscribed
    /\ UNCHANGED otherVars

RegisterSharedSliceModel ==
    /\ Idle
    /\ \E model \in SharedSliceModelPool : registerSharedSliceModel(stack, model)
    /\ UNCHANGED subscribed
    /\ UNCHANGED otherVars

RegisterSharedSliceModels ==
    /\ Idle
    /\ \E models \in SeqsUpTo(SharedSliceModelPool, MaxBatch) :
           registerSharedSliceModels(stack, models)
    /\ UNCHANGED subscribed
    /\ UNCHANGED otherVars

RegisterTypePaths ==
    /\ Idle
    /\ \E paths \in SeqsUpTo(TypePathPool, MaxBatch) : registerTypePaths(stack, paths)
    /\ UNCHANGED subscribed
    /\ UNCHANGED otherVars

RegisterDocument ==
    /\ Idle
    /\ \E document \in DocumentPool : registerDocument(stack, document)
    /\ UNCHANGED subscribed
    /\ UNCHANGED otherVars

RegisterDocuments ==
    /\ Idle
    /\ \E documents \in SeqsUpTo(DocumentPool, MaxBatch) :
           registerDocuments(stack, documents)
    /\ UNCHANGED subscribed
    /\ UNCHANGED otherVars

----------------------------------------------------------------------------
(* #notifySubscribers: one step per callback invoked *)

\* subscriber() where the subscriber is cObserve
NotifyObserver ==
    /\ Notifying
    /\ NextSubscriber = "cObserve"
    /\ stack' = Advanced
    /\ UNCHANGED <<nodes, typePaths, subscribers, subscribed, unsubscribed>>
    /\ UNCHANGED otherVars

\* subscriber() where the subscriber is cUnsubscribe
NotifyUnsubscriber ==
    /\ Notifying
    /\ NextSubscriber = "cUnsubscribe"
    /\ stack' = Advanced
    /\ unsubscribe("cObserve")
    /\ UNCHANGED <<nodes, typePaths>>
    /\ UNCHANGED otherVars

\* subscriber() where the subscriber is cRegisterDocument
NotifyDocumentRegistrar ==
    /\ Notifying
    /\ NextSubscriber = "cRegisterDocument"
    /\ IF Len(stack) < MaxDepth /\ Len(typePaths) + Len(nodes) < MaxItems
       THEN registerDocument(Advanced, docX)
       ELSE /\ stack' = Advanced
            /\ UNCHANGED <<nodes, typePaths, subscribers, unsubscribed>>
    /\ UNCHANGED subscribed
    /\ UNCHANGED otherVars

\* the loop is over: the method returns
Return ==
    /\ ~Idle
    /\ Top.ret.kind = "pending"
    /\ Top.i > Len(Top.snap)
    /\ stack' = [stack EXCEPT ![Len(stack)].ret = ReturnValue(Top)]
    /\ UNCHANGED <<nodes, typePaths, subscribers, subscribed, unsubscribed>>
    /\ UNCHANGED otherVars

\* the caller (the host, or the callback that made the call) goes on
Resume ==
    /\ ~Idle
    /\ Top.ret.kind # "pending"
    /\ stack' =
           IF Len(stack) = 1 THEN <<>>
           ELSE [SubSeq(stack, 1, Len(stack) - 1) EXCEPT
                    ![Len(stack) - 1].nested =
                        Append(@, [op |-> Top.op, base |-> Top.base,
                                   items |-> Top.items,
                                   end |-> IF Top.op \in DocumentOps
                                           THEN Len(nodes)
                                           ELSE Len(typePaths)])]
    /\ UNCHANGED <<nodes, typePaths, subscribers, subscribed, unsubscribed>>
    /\ UNCHANGED otherVars

Next ==
    \/ Subscribe
    \/ Unsubscribe
    \/ RegisterCustomTypeModel
    \/ RegisterCustomTypeModels
    \/ RegisterSharedSliceModel
    \/ RegisterSharedSliceModels
    \/ RegisterTypePaths
    \/ RegisterDocument
    \/ RegisterDocuments
    \/ NotifyObserver
    \/ NotifyUnsubscriber
    \/ NotifyDocumentRegistrar
    \/ Return
    \/ Resume

Spec == Init /\ [][Next]_vars

----------------------------------------------------------------------------
(* The order experiment: two fresh Runtimes without subscribers are given  *)
(* the type paths A and B through registerTypePaths, one A then B, the     *)
(* other B then A.                                                         *)

InitOrder ==
    /\ Constructed
    /\ NoFrame
    /\ NoBatch
    /\ DefaultConfig
    /\ NoDigest
    /\ orderA \in SeqsUpTo(AllTypePaths, MaxBatch)
    /\ orderB \in SeqsUpTo(AllTypePaths, MaxBatch)
    /\ typePathsAB = <<>> /\ typePathsBA = <<>>
    /\ orderPc = 0

\* registerTypePaths(A) on the one, registerTypePaths(B) on the other
RegisterFirst ==
    /\ orderPc = 0
    /\ typePathsAB' = RegisteredTypePaths(typePathsAB, orderA)
    /\ typePathsBA' = RegisteredTypePaths(typePathsBA, orderB)
    /\ orderPc' = 1
    /\ UNCHANGED <<orderA, orderB>>
    /\ UNCHANGED <<runtimeVars, digestVars, configVars, batchVars, frameVars>>

\* registerTypePaths(B) on the one, registerTypePaths(A) on the other
RegisterSecond ==
    /\ orderPc = 1
    /\ typePathsAB' = RegisteredTypePaths(typePathsAB, orderB)
    /\ typePathsBA' = RegisteredTypePaths(typePathsBA, orderA)
    /\ orderPc' = 2
    /\ UNCHANGED <<orderA, orderB>>
    /\ UNCHANGED <<runtimeVars, digestVars, configVars, batchVars, frameVars>>

NextOrder == RegisterFirst \/ RegisterSecond

SpecOrder == InitOrder /\ [][NextOrder]_vars

----------------------------------------------------------------------------
(* The digest experiment: createContentDigest is applied to two payloads.  *)
(* A payload is a mapping with the keys a and b or some of them, in either *)
(* order, each with a number, a string, null, NaN or undefined as value.   *)

PayloadKeys == {sA, sB}

PayloadValues ==
    {[t |-> "number", v |-> <<"1">>],
     [t |-> "number", v |-> sNaN],
     [t |-> "string", v |-> <<"1">>],
     [t |-> "null", v |-> <<>>],
     [t |-> "undefined", v |-> <<>>]}

Payloads ==
    {input \in SeqsUpTo([key : PayloadKeys, value : PayloadValues], MaxKeys) :
        \A i, j \in 1..Len(input) : input[i].key = input[j].key => i = j}

InitDigest ==
    /\ Constructed
    /\ NoFrame
    /\ NoBatch
    /\ DefaultConfig
    /\ NoOrder
    /\ payload1 \in Payloads
    /\ payload2 \in Payloads
    /\ digest1 = <<>> /\ digest2 = <<>>
    /\ digestPc = 0

CreateContentDigests ==
    /\ digestPc = 0
    /\ digest1' = createContentDigest(payload1)
    /\ digest2' = createContentDigest(payload2)
    /\ digestPc' = 1
    /\ UNCHANGED <<payload1, payload2>>
    /\ UNCHANGED <<runtimeVars, orderVars, configVars, batchVars, frameVars>>

NextDigest == CreateContentDigests

SpecDigest == InitDigest /\ [][NextDigest]_vars

----------------------------------------------------------------------------
(* The transform experiment: a Runtime constructed without or with a       *)
(* transformFieldName is given a model with one field, then a document     *)
(* with one field, the field names drawn from TransformNames.              *)

InitTransform ==
    /\ Constructed
    /\ NoFrame
    /\ NoBatch
    /\ NoOrder
    /\ NoDigest
    /\ given \in {NoConfig, CustomConfig}
    /\ config = RuntimeConfigOf(given)

TransformRegisterCustomTypeModel ==
    /\ Idle
    /\ typePaths = <<>>
    /\ \E fieldName \in TransformNames :
           registerCustomTypeModel(stack,
               [id |-> sA, fields |-> <<[name |-> fieldName, type |-> "Number"]>>])
    /\ UNCHANGED subscribed
    /\ UNCHANGED otherVars

TransformRegisterSharedSliceModel ==
    /\ Idle
    /\ typePaths = <<>>
    /\ \E fieldName \in TransformNames :
           registerSharedSliceModel(stack,
               [id |-> sA, fields |-> <<[name |-> fieldName, type |-> "Select"]>>])
    /\ UNCHANGED subscribed
    /\ UNCHANGED otherVars

TransformRegisterDocument ==
    /\ Idle
    /\ typePaths # <<>>
    /\ nodes = <<>>
    /\ \E fieldName \in TransformNames :
           registerDocument(stack,
               [id |-> idX, type |-> sA,
                data |-> <<[name |-> fieldName,
                            value |-> [shape |-> "text", text |-> "v"]]>>])
    /\ UNCHANGED subscribed
    /\ UNCHANGED otherVars

NextTransform ==
    \/ TransformRegisterCustomTypeModel
    \/ TransformRegisterSharedSliceModel
    \/ TransformRegisterDocument
    \/ Return
    \/ Resume

SpecTransform == InitTransform /\ [][NextTransform]_vars

----------------------------------------------------------------------------
(* The loop experiment: among the subscribers there can be cLoop, a        *)
(* callback that calls registerTypePaths([]) whenever it is invoked.  The  *)
(* calls then nest until the engine's call stack overflows; the RangeError *)
(* is caught nowhere in the Runtime and ends every call in progress.       *)

LoopCallbacks == {"cObserve", "cUnsubscribe", "cLoop"}

InitLoop ==
    /\ Constructed
    /\ NoFrame
    /\ NoBatch
    /\ DefaultConfig
    /\ NoOrder
    /\ NoDigest

LoopSubscribe ==
    /\ Idle
    /\ \E callback \in LoopCallbacks : subscribe(callback)
    /\ UNCHANGED <<nodes, typePaths, stack>>
    /\ UNCHANGED otherVars

\* subscriber() where the subscriber is cLoop
NotifyLooper ==
    /\ Notifying
    /\ NextSubscriber = "cLoop"
    /\ Len(stack) < StackLimit
    /\ registerTypePaths(Advanced, <<>>)
    /\ UNCHANGED subscribed
    /\ UNCHANGED otherVars

\* subscriber() where the subscriber is cLoop and the call stack is full:
\* the RangeError unwinds every call in progress, none of them returns
Overflow ==
    /\ Notifying
    /\ NextSubscriber = "cLoop"
    /\ Len(stack) = StackLimit
    /\ stack' = <<>>
    /\ UNCHANGED <<nodes, typePaths, subscribers, subscribed, unsubscribed>>
    /\ UNCHANGED otherVars

\* a call in progress goes on: nothing suspends it
Running ==
    \/ NotifyObserver
    \/ NotifyUnsubscriber
    \/ NotifyLooper
    \/ Overflow
    \/ Return
    \/ Resume

\* The host calls one method of each kind and the plural registerDocuments;
\* the plural model methods differ from the singular ones only in the list
\* they build before they assign and notify.
NextLoop ==
    \/ LoopSubscribe
    \/ RegisterCustomTypeModel
    \/ RegisterSharedSliceModel
    \/ RegisterTypePaths
    \/ RegisterDocument
    \/ RegisterDocuments
    \/ Running

SpecLoop == InitLoop /\ [][NextLoop]_vars /\ WF_vars(Running)

----------------------------------------------------------------------------
(* The batch experiment: a Runtime without subscribers, which may have     *)
(* been given type paths, registers the documents of batchDocs, either by  *)
(* one registerDocuments call or by one registerDocument call for each.    *)
(* registerDocuments is taken one document of documents.map at a time.     *)

InitBatch ==
    /\ Constructed
    /\ NoFrame
    /\ DefaultConfig
    /\ NoOrder
    /\ NoDigest
    /\ batchDocs \in SeqsUpTo(DocumentPool, MaxBatch)
    /\ batchMode \in {"registerDocuments", "registerDocument"}
    /\ batchAt = 1
    /\ batchItems = <<>>

\* registerTypePaths(paths) before the documents are registered; there is no
\* subscriber to notify
BatchRegisterTypePaths ==
    /\ batchAt = 1
    /\ typePaths = <<>>
    /\ \E paths \in SeqsUpTo(TypePathPool, MaxBatch) \ {<<>>} :
           typePaths' = RegisteredTypePaths(typePaths, paths)
    /\ UNCHANGED <<nodes, subscribers, stack, subscribed, unsubscribed>>
    /\ UNCHANGED <<orderVars, digestVars, configVars, batchVars, frameVars>>

\* this.nodes if documents.map put each node there as soon as it is normalized
NodesWhileMappingPushed(accumulated, normalized) ==
    Spread(accumulated, <<normalized>>)

\* this.nodes once documents.map has normalized one more document: the
\* callback of map assigns nothing
NodesWhileMapping(accumulated, normalized) == accumulated

\* registerDocuments: documents.map normalizes the next document
BatchNormalize ==
    /\ batchMode = "registerDocuments"
    /\ batchAt \in 1..Len(batchDocs)
    /\ LET normalized == NormalizeDocument(batchDocs[batchAt], nodes, typePaths)
       IN /\ batchItems' = Append(batchItems, normalized)
          /\ nodes' = NodesWhileMapping(nodes, normalized)
    /\ batchAt' = batchAt + 1
    /\ UNCHANGED <<batchDocs, batchMode>>
    /\ UNCHANGED <<typePaths, subscribers, stack, subscribed, unsubscribed>>
    /\ UNCHANGED <<orderVars, digestVars, configVars, frameVars>>

\* registerDocuments: this.nodes = [...this.nodes, ...nodes]
BatchAssign ==
    /\ batchMode = "registerDocuments"
    /\ batchAt = Len(batchDocs) + 1
    /\ nodes' = RegisteredNodes(nodes, batchItems)
    /\ batchAt' = batchAt + 1
    /\ UNCHANGED <<batchDocs, batchMode, batchItems>>
    /\ UNCHANGED <<typePaths, subscribers, stack, subscribed, unsubscribed>>
    /\ UNCHANGED <<orderVars, digestVars, configVars, frameVars>>

\* registerDocument(document) for the next document
BatchRegisterDocument ==
    /\ batchMode = "registerDocument"
    /\ batchAt \in 1..Len(batchDocs)
    /\ nodes' = RegisteredNodes(nodes,
                    <<NormalizeDocument(batchDocs[batchAt], nodes, typePaths)>>)
    /\ batchAt' = batchAt + 1
    /\ UNCHANGED <<batchDocs, batchMode, batchItems>>
    /\ UNCHANGED <<typePaths, subscribers, stack, subscribed, unsubscribed>>
    /\ UNCHANGED <<orderVars, digestVars, configVars, frameVars>>

NextBatch ==
    \/ BatchRegisterTypePaths
    \/ BatchNormalize
    \/ BatchAssign
    \/ BatchRegisterDocument

SpecBatch == InitBatch /\ [][NextBatch]_vars

----------------------------------------------------------------------------
(* The frame experiment: the host calls every public method of a Runtime   *)
(* whose subscribers only read it (cObserve); lastOp names the method of   *)
(* the last call and read holds what an accessor returned.                 *)

SubscriptionOps == {"subscribe", "unsubscribe"}
ReadOps == {"getNode", "hasNode", "getTypePath", "normalize", "normalizeDocument"}

\* the field values normalize is asked for
QueryValues == {d.data[1].value : d \in DocumentPool}

InitFrame ==
    /\ Constructed
    /\ DefaultConfig
    /\ NoOrder
    /\ NoDigest
    /\ NoBatch
    /\ NoFrame

\* what a call of a method other than an accessor leaves alone
FrameCalled(op) ==
    /\ lastOp' = op
    /\ read' = Undefined
    /\ UNCHANGED <<orderVars, digestVars, configVars, batchVars>>

\* an accessor call: nothing of the Runtime is assigned
FrameRead(op, value) ==
    /\ Idle
    /\ lastOp' = op
    /\ read' = value
    /\ UNCHANGED runtimeVars
    /\ UNCHANGED <<orderVars, digestVars, configVars, batchVars>>

FrameSubscribe ==
    /\ Idle
    /\ subscribe("cObserve")
    /\ UNCHANGED <<nodes, typePaths, stack>>
    /\ FrameCalled("subscribe")

FrameUnsubscribe ==
    /\ Idle
    /\ unsubscribe("cObserve")
    /\ UNCHANGED <<nodes, typePaths, stack>>
    /\ FrameCalled("unsubscribe")

FrameRegisterCustomTypeModel ==
    /\ Idle
    /\ \E model \in FrameCustomTypeModelPool : registerCustomTypeModel(stack, model)
    /\ UNCHANGED subscribed
    /\ FrameCalled("registerCustomTypeModel")

FrameRegisterCustomTypeModels ==
    /\ Idle
    /\ \E models \in SeqsUpTo(FrameCustomTypeModelPool, MaxBatch) :
           registerCustomTypeModels(stack, models)
    /\ UNCHANGED subscribed
    /\ FrameCalled("registerCustomTypeModels")

FrameRegisterSharedSliceModel ==
    /\ Idle
    /\ \E model \in FrameSharedSliceModelPool : registerSharedSliceModel(stack, model)
    /\ UNCHANGED subscribed
    /\ FrameCalled("registerSharedSliceModel")

FrameRegisterSharedSliceModels ==
    /\ Idle
    /\ \E models \in SeqsUpTo(FrameSharedSliceModelPool, MaxBatch) :
           registerSharedSliceModels(stack, models)
    /\ UNCHANGED subscribed
    /\ FrameCalled("registerSharedSliceModels")

FrameRegisterTypePaths ==
    /\ Idle
    /\ \E paths \in SeqsUpTo(TypePathPool, MaxBatch) : registerTypePaths(stack, paths)
    /\ UNCHANGED subscribed
    /\ FrameCalled("registerTypePaths")

FrameRegisterDocument ==
    /\ Idle
    /\ \E document \in DocumentPool : registerDocument(stack, document)
    /\ UNCHANGED subscribed
    /\ FrameCalled("registerDocument")

FrameRegisterDocuments ==
    /\ Idle
    /\ \E documents \in SeqsUpTo(DocumentPool, MaxBatch) :
           registerDocuments(stack, documents)
    /\ UNCHANGED subscribed
    /\ FrameCalled("registerDocuments")

FrameGetNode ==
    \E id \in QueryIds : FrameRead("getNode", GetNode(nodes, id))

FrameHasNode ==
    \E id \in QueryIds :
        FrameRead("hasNode", [kind |-> "boolean", value |-> HasNode(nodes, id)])

FrameGetTypePath ==
    \E path \in QueryPaths :
        FrameRead("getTypePath", GetTypePath(typePaths, path))

\* normalize(value, path): getNode and getTypePath are all it is given of
\* the Runtime
FrameNormalize ==
    \E value \in QueryValues : \E path \in QueryPaths :
        FrameRead("normalize", NormalizeValue(value, path, nodes, typePaths))

FrameNormalizeDocument ==
    \E document \in DocumentPool :
        FrameRead("normalizeDocument",
                  NormalizeDocument(document, nodes, typePaths))

NextFrame ==
    \/ FrameSubscribe
    \/ FrameUnsubscribe
    \/ FrameRegisterCustomTypeModel
    \/ FrameRegisterCustomTypeModels
    \/ FrameRegisterSharedSliceModel
    \/ FrameRegisterSharedSliceModels
    \/ FrameRegisterTypePaths
    \/ FrameRegisterDocument
    \/ FrameRegisterDocuments
    \/ FrameGetNode
    \/ FrameHasNode
    \/ FrameGetTypePath
    \/ FrameNormalize
    \/ FrameNormalizeDocument
    \/ NotifyObserver
    \/ Return
    \/ Resume

SpecFrame == InitFrame /\ [][NextFrame]_vars

----------------------------------------------------------------------------
(* Properties *)

\* the sequence a call assigns
Target(frame) == IF frame.op \in DocumentOps THEN nodes ELSE typePaths

\* the items of the call stand in its sequence, from where the call put them
Applied(frame) ==
    /\ Len(Target(frame)) >= frame.base + Len(frame.items)
    /\ SubSeq(Target(frame), frame.base + 1, frame.base + Len(frame.items))
           = frame.items

\* the top call has returned
Returned == ~Idle /\ Top.ret.kind # "pending"

\* the top call has assigned its sequence and has invoked no callback yet
Fresh == ~Idle /\ Top.ret.kind = "pending" /\ Top.called = <<>>

\* xs without every element equal to x
RECURSIVE Without(_, _)
Without(xs, x) ==
    IF xs = <<>> THEN <<>>
    ELSE IF Head(xs) = x THEN Without(Tail(xs), x)
    ELSE <<Head(xs)>> \o Without(Tail(xs), x)

Occurs(xs, x) == \E i \in 1..Len(xs) : xs[i] = x

\* C1: whenever a mutating call is about to invoke a subscriber callback, the
\* sequence it assigns already holds every item the call produced, in order,
\* right after what was there before the call.
C1_CallbacksSeeWholeMutation == Notifying => Applied(Top)

\* a batch of two documents is registered, one callback has run and a second
\* one is about to
C1_Witness ==
    /\ Notifying
    /\ Top.op = "registerDocuments"
    /\ Len(Top.items) = 2
    /\ Top.i = 2

\* C2: when a mutating call returns and unsubscribe has never been called, the
\* callbacks its notification invoked are exactly the callbacks passed to
\* subscribe so far, once per subscribe call and in the order of those calls.
C2_FanOutInSubscriptionOrder ==
    (Returned /\ subscribed # NoLog) => Top.called = subscribed

\* an empty batch has notified two subscriptions of the same callback
C2_Witness ==
    /\ Returned
    /\ subscribed # NoLog
    /\ Top.items = <<>>
    /\ Len(Top.called) = 2
    /\ Top.called[1] = Top.called[2]

\* C3 as claimed: a mutating call that directly follows unsubscribe(c) invokes
\* one callback fewer than were subscribed before unsubscribe(c), or as many
\* when c was not subscribed.
C3_OneFewerAfterUnsubscribe ==
    (Returned /\ Top.after # NoCall) =>
        Len(Top.called) = Len(Top.after.before)
                          - (IF Occurs(Top.after.before, Top.after.callback)
                             THEN 1 ELSE 0)

\* C3 as amended: a mutating call that directly follows unsubscribe(c) invokes
\* the subscriptions that were there before unsubscribe(c) except every
\* subscription of c, in their original order.
C3_AllOfCallbackGoneAfterUnsubscribe ==
    (Returned /\ Top.after # NoCall) =>
        Top.called = Without(Top.after.before, Top.after.callback)

\* unsubscribe(c) found c subscribed twice; the call after it has returned
C3_Witness ==
    /\ Returned
    /\ Top.after # NoCall
    /\ Len(Top.after.before) = 2
    /\ Top.after.before[1] = Top.after.callback
    /\ Top.after.before[2] = Top.after.callback
    /\ Top.called = <<>>

\* the earliest entry of the registry whose path is `path`, component by
\* component
FirstWithPath(registry, path) ==
    LET hits == {i \in 1..Len(registry) : registry[i].path = path}
    IN IF hits = {} THEN Undefined
       ELSE registry[CHOOSE i \in hits : \A j \in hits : i <= j]

\* C4: when entries for path p are registered, getTypePath(p) returns the one
\* of them that was registered earliest.
C4_EarliestEntryOfThePath ==
    \A path \in QueryPaths :
        FirstWithPath(typePaths, path) # Undefined =>
            GetTypePath(typePaths, path) = FirstWithPath(typePaths, path)

\* C5: getTypePath(q) returns only an entry whose path equals q component by
\* component, and nothing when no registered path equals q.
C5_ExactPathLookup ==
    \A path \in QueryPaths :
        LET found == GetTypePath(typePaths, path)
        IN /\ found # Undefined => found.path = path
           /\ (\A i \in 1..Len(typePaths) : typePaths[i].path # path)
                  => found = Undefined

\* C6: no step removes, replaces or reorders an entry of nodes or typePaths:
\* the value before the step is a prefix of the value after it.
C6_NodesAndTypePathsAppendOnly ==
    [][IsPrefix(nodes, nodes') /\ IsPrefix(typePaths, typePaths')]_vars

\* a callback has registered a document from inside a registerDocument(s)
\* call that had already appended one
C6_Witness ==
    /\ Len(stack) = 2
    /\ stack[1].op \in DocumentOps
    /\ stack[2].op \in DocumentOps
    /\ stack[2].base > stack[1].base
    /\ Len(nodes) > stack[2].base

\* C7 as claimed: the value of subscribers before a step is a prefix of its
\* value after the step.
C7_SubscribersAppendOnly ==
    [][IsPrefix(subscribers, subscribers')]_vars

\* C7 as amended: a step either extends subscribers at the end or is an
\* unsubscribe(c), which removes the subscriptions of c and keeps the others
\* in their order.
C7_SubscribersAppendOnlyButUnsubscribe ==
    [][\/ IsPrefix(subscribers, subscribers')
       \/ /\ unsubscribed' # NoCall
          /\ unsubscribed'.before = subscribers
          /\ subscribers' = Without(subscribers, unsubscribed'.callback)]_vars

\* an unsubscribe has removed a subscription and left another one
C7_Witness ==
    /\ unsubscribed # NoCall
    /\ Len(subscribers) = 1
    /\ Len(unsubscribed.before) = 2

\* no path of A equals a path of B
DistinctPaths(A, B) ==
    \A i \in 1..Len(A) : \A j \in 1..Len(B) : A[i].path # B[j].path

\* C8: when no path of A equals a path of B, the Runtime given A then B and
\* the Runtime given B then A answer every getTypePath query alike.
C8_OrderIndependentLookup ==
    (orderPc = 2 /\ DistinctPaths(orderA, orderB)) =>
        \A path \in QueryPaths :
            GetTypePath(typePathsAB, path) = GetTypePath(typePathsBA, path)

\* C9: getNode(id) returns the earliest accumulated node whose document key is
\* id, nothing when no accumulated node has that key; hasNode(id) holds
\* exactly when getNode(id) returns a node.
C9_NodeLookup ==
    \A id \in QueryIds :
        LET found == GetNode(nodes, id)
        IN /\ found # Undefined =>
                  /\ found.prismicId = id
                  /\ \E i \in 1..Len(nodes) :
                         /\ nodes[i] = found
                         /\ \A j \in 1..(i - 1) : nodes[j].prismicId # id
           /\ (\A i \in 1..Len(nodes) : nodes[i].prismicId # id)
                  => found = Undefined
           /\ HasNode(nodes, id) <=> found # Undefined

\* the same document is accumulated twice, as two different nodes
C9_Witness ==
    /\ Len(nodes) >= 2
    /\ nodes[1].prismicId = nodes[2].prismicId
    /\ nodes[1] # nodes[2]

\* the node of `document` normalized at the path root [document.type], in the
\* state (accumulated, registry)
NodeOf(document, accumulated, registry) ==
    Normalize(document, <<document.type>>, accumulated, registry, transformFieldName)

\* C10: right after registerDocument(s) has assigned nodes, nodes is its value
\* before the call followed by one node per document of the call, in input
\* order, each the normalization of its document at the path root
\* [document.type]; the call returns that node (registerDocument) or those
\* nodes in the same order (registerDocuments).
C10_RegisterDocumentAppendsItsNodes ==
    /\ (Fresh /\ Top.op \in DocumentOps) =>
           /\ Len(nodes) = Top.base + Len(Top.args)
           /\ \A j \in 1..Len(Top.args) :
                  nodes[Top.base + j] =
                      NodeOf(Top.args[j], SubSeq(nodes, 1, Top.base), typePaths)
    /\ (Returned /\ Top.op = "registerDocument") =>
           Top.ret.value = nodes[Top.base + 1]
    /\ (Returned /\ Top.op = "registerDocuments") =>
           Top.ret.value = SubSeq(nodes, Top.base + 1, Top.base + Len(Top.args))

\* registerDocument has appended a node for a key that nodes already held,
\* normalized as the registered type says
C10_Witness ==
    /\ Fresh
    /\ Top.op = "registerDocument"
    /\ Top.base >= 1
    /\ nodes[1].prismicId = Top.args[1].id
    /\ nodes[Top.base + 1].data[1].value.shape = "typed"

\* the type paths one model of a register*Model(s) call yields
FragmentOf(op, model) ==
    IF op \in {"registerCustomTypeModel", "registerCustomTypeModels"}
    THEN customTypeModelToTypePaths(model, transformFieldName)
    ELSE sharedSliceModelToTypePaths(model, transformFieldName)

\* the fragments of the models, one after the other in model order
RECURSIVE FragmentsOf(_, _)
FragmentsOf(op, models) ==
    IF models = <<>> THEN <<>>
    ELSE FragmentOf(op, Head(models)) \o FragmentsOf(op, Tail(models))

\* what a type-path registration is to append
Appended(frame) ==
    IF frame.op = "registerTypePaths" THEN frame.args
    ELSE FragmentsOf(frame.op, frame.args)

\* C11: right after a type-path registration has assigned typePaths, typePaths
\* is its value before the call followed by the registered entries in order
\* (for registerTypePaths(ps) the entries of ps, all of them even when already
\* registered; for register*Model(s) the fragments of the models in model
\* order); register*Model(s) returns exactly the entries it appended.
C11_TypePathsAppendedAndReturned ==
    /\ (Fresh /\ Top.op \in TypePathOps) =>
           /\ Len(typePaths) = Top.base + Len(Appended(Top))
           /\ \A j \in 1..Len(Appended(Top)) :
                  typePaths[Top.base + j] = Appended(Top)[j]
    /\ (Returned /\ Top.op \in TypePathOps \ {"registerTypePaths"}) =>
           /\ Top.ret.kind = "value"
           /\ Top.ret.value =
                  SubSeq(typePaths, Top.base + 1, Top.base + Len(Appended(Top)))
           /\ Top.ret.value = Appended(Top)

\* registerCustomTypeModels has returned the fragments of two different
\* models, the second of them equal to an entry registered before the call
C11_Witness ==
    /\ Returned
    /\ Top.op = "registerCustomTypeModels"
    /\ Top.base = 1
    /\ Len(Top.args) = 2
    /\ Len(Top.ret.value) = 2
    /\ Top.ret.value[1] # Top.ret.value[2]
    /\ typePaths[1] = Top.ret.value[2]

\* the payloads have the same keys in the same order
SameKeys(input1, input2) ==
    /\ Len(input1) = Len(input2)
    /\ \A i \in 1..Len(input1) : input1[i].key = input2[i].key

\* the payloads have the same entries, in a different order
ReorderedKeys(input1, input2) ==
    /\ {input1[i] : i \in 1..Len(input1)} = {input2[i] : i \in 1..Len(input2)}
    /\ input1 # input2

\* every value of the payload is a JSON value: a string, a number other than
\* NaN, or null
JSONValued(input) ==
    \A i \in 1..Len(input) :
        /\ input[i].value.t \in {"string", "number", "null"}
        /\ input[i].value.v # sNaN

\* C12 as claimed: payloads that differ in a field value get different
\* digests, payloads with the same keys in the same order and the same values
\* get equal digests, and payloads that differ only in the order of their
\* keys get different digests.
C12_DigestTellsPayloadsApart ==
    digestPc = 1 =>
        /\ (SameKeys(payload1, payload2) /\ payload1 # payload2)
               => digest1 # digest2
        /\ payload1 = payload2 => digest1 = digest2
        /\ ReorderedKeys(payload1, payload2) => digest1 # digest2

\* C12 as amended: equal payloads get equal digests, and so do payloads that
\* JSON.stringify writes alike; payloads of JSON values that differ in a
\* value, in a key or in the order of their keys get different digests.
C12_DigestTellsJSONPayloadsApart ==
    digestPc = 1 =>
        /\ payload1 = payload2 => digest1 = digest2
        /\ JSONStringify(payload1) = JSONStringify(payload2) => digest1 = digest2
        /\ (JSONValued(payload1) /\ JSONValued(payload2) /\ payload1 # payload2)
               => digest1 # digest2

\* the digests of two payloads of JSON values with the same entries in
\* opposite order are computed
C12_Witness ==
    /\ digestPc = 1
    /\ JSONValued(payload1) /\ JSONValued(payload2)
    /\ Len(payload1) = 2
    /\ ReorderedKeys(payload1, payload2)
    /\ digest1 # digest2

DashesReplaced(fieldName, out) ==
    /\ Len(out) = Len(fieldName)
    /\ \A i \in 1..Len(fieldName) :
           /\ fieldName[i] = "-" => out[i] = "_"
           /\ fieldName[i] # "-" => out[i] = fieldName[i]

\* `out` is what the Runtime is to make of the field name: the name with its
\* dashes replaced, which the transform then leaves as it is, when no
\* transformFieldName was given, and what the given function returns otherwise
TransformedAsConfigured(fieldName, out) ==
    IF given = NoConfig
    THEN /\ DashesReplaced(fieldName, out)
         /\ TransformFieldNameOf(config)[out] = out
    ELSE out = DropDashes(fieldName)

\* C14: the type paths a register*Model call builds and the node
\* registerDocument(s) normalizes name each field by the configured
\* transformFieldName: without a configured one every '-' of the name becomes
\* '_', nothing else changes and a second application changes nothing; with
\* a configured one its result is used instead.
C14_FieldNamesTransformedAsConfigured ==
    \A k \in 1..Len(stack) : \A j \in 1..Len(stack[k].items) :
        /\ stack[k].op \in TypePathOps \ {"registerTypePaths"} =>
               TransformedAsConfigured(stack[k].args[j].fields[1].name,
                                       stack[k].items[j].path[2])
        /\ stack[k].op \in DocumentOps =>
               TransformedAsConfigured(stack[k].args[j].data[1].name,
                                       stack[k].items[j].data[1].name)

\* a Runtime without a configured transform has registered a model with the
\* field '-a-' and then a document with the field '-a-': both are named '_a_'
C14_Witness ==
    /\ given = NoConfig
    /\ Returned
    /\ Top.op = "registerDocument"
    /\ Top.args[1].data[1].name = <<"-", "a", "-">>
    /\ Top.items[1].data[1].name = <<"_", "a", "_">>
    /\ typePaths[1].path = <<sA, <<"_", "a", "_">>>>

\* C15: the callback a notification is about to invoke is subscribed at that
\* moment; a callback that unsubscribe has removed, be it from inside an
\* earlier callback of the same notification, is not invoked.
C15_OnlySubscribedCallbacksInvoked ==
    Notifying => Occurs(subscribers, NextSubscriber)

\* the calls among `calls` that assign the sequence `frame` assigns
SameTarget(frame, calls) ==
    Filter(calls, [n \in 1..Len(calls) |->
        (calls[n].op \in DocumentOps) <=> (frame.op \in DocumentOps)])

\* the calls made from the callbacks of `frame` have put their items right
\* after the items of `frame`, one call after the other
NestedFollow(frame) ==
    LET calls == SameTarget(frame, frame.nested)
    IN \A n \in 1..Len(calls) :
           /\ Applied(calls[n])
           /\ calls[n].end >= calls[n].base + Len(calls[n].items)
           /\ calls[n].base = IF n = 1 THEN frame.base + Len(frame.items)
                              ELSE calls[n - 1].end

\* C16: at every moment of a mutating call, and so when a later callback runs
\* and when the call returns, the sequence it assigns holds the items of the
\* call where the call put them, followed by the items of the calls its
\* callbacks have made, each where that call put them and none twice; when
\* the call returns nothing else has been added.
C16_NestedCallsLoseNothing ==
    /\ \A k \in 1..Len(stack) :
           /\ Applied(stack[k])
           /\ NestedFollow(stack[k])
           /\ \A n \in 1..Len(stack[k].nested) : Applied(stack[k].nested[n])
    /\ Returned =>
           LET calls == SameTarget(Top, Top.nested)
           IN Len(Target(Top)) = IF calls = <<>> THEN Top.base + Len(Top.items)
                                 ELSE calls[Len(calls)].end

\* registerDocuments has returned; its first callback registered a document
\* of its own, its second callback ran after that
C16_Witness ==
    /\ Len(stack) = 1
    /\ Returned
    /\ Top.op = "registerDocuments"
    /\ Len(Top.items) >= 1
    /\ Len(Top.nested) = 1
    /\ Top.called = <<"cRegisterDocument", "cObserve">>
    /\ Len(nodes) = Top.base + Len(Top.items) + 1

\* C17: when no subscribed callback calls a mutating method, a mutating call
\* in progress comes to its end, and when it returns it has invoked exactly
\* the subscriptions there were when its notification began; a call whose
\* notification holds a callback that always calls a mutating method never
\* returns.
C17_NotificationTerminatesUnlessLooping ==
    /\ [](Returned /\ ~Occurs(Top.snap, "cLoop") => Top.called = Top.snap)
    /\ (~Idle /\ ~Occurs(subscribers, "cLoop")) ~> Idle
    /\ [](\A k \in 1..Len(stack) :
             Occurs(stack[k].snap, "cLoop") => stack[k].ret.kind = "pending")

\* a call has returned after its two callbacks; the first has unsubscribed
\* the second, so that one subscription is left
C17_Witness ==
    /\ Returned
    /\ Top.snap = <<"cUnsubscribe", "cObserve">>
    /\ Top.called = Top.snap
    /\ subscribers = <<"cUnsubscribe">>

C19_FrameConditions ==
    [][/\ config' = config
       /\ Idle =>
              /\ lastOp' \in TypePathOps =>
                     nodes' = nodes /\ subscribers' = subscribers
              /\ lastOp' \in DocumentOps =>
                     typePaths' = typePaths /\ subscribers' = subscribers
              /\ lastOp' \in SubscriptionOps =>
                     nodes' = nodes /\ typePaths' = typePaths /\ stack' = <<>>
              /\ lastOp' \in ReadOps =>
                     /\ nodes' = nodes /\ typePaths' = typePaths
                     /\ subscribers' = subscribers
                     /\ stack' = <<>>
       /\ ~Idle =>
              /\ lastOp' = lastOp
              /\ nodes' = nodes /\ typePaths' = typePaths
              /\ subscribers' = subscribers]_vars

\* a type-path registration has run to its return, its two callbacks
\* invoked, with a node accumulated before it
C19_Witness ==
    /\ Returned
    /\ lastOp \in TypePathOps
    /\ Top.op = lastOp
    /\ Len(Top.items) >= 1
    /\ Len(Top.called) = 2
    /\ Len(nodes) >= 1

====
